---- MODULE Spec2Model ----
(***************************************************************************)
(* State-machine model of parquet_cli/duplicate_search/search.py: the      *)
(* enumeration of ingest jobs from the stats index, the concurrent fetch   *)
(* of each job's file records (get_es_docs_for_id under a thread pool),    *)
(* the mapping of source files to jobs, the duplicate classification, the  *)
(* external confirmation of jobs without file records, and the output.     *)
(*                                                                         *)
(* Strings that the program takes apart (S3 urls, job ids) are sequences   *)
(* of tokens; 'job_id=' and '/' are tokens.  Delays are in tenths of the   *)
(* program's time unit, so that 1.5 is the integer 15.                     *)
(***************************************************************************)
EXTENDS Integers, Sequences, FiniteSets, TLC

\* ------------------------------------------------------------- bounds

\* Most file records the files index holds for one job.
MaxDocs == 2

\* Most pages the external service answers one job's query with.
MaxPages == 2

\* Repeated requests after which the model stops following the retry loop
\* of one page.
MaxPageRetries == 3

\* ------------------------------------------- constants of the program

\* MAX_ES_WORKERS: the size of the thread pool.
MAX_ES_WORKERS == 2

\* get_es_docs_for_id: retries = 3
FetchRetries == 3

\* get_es_docs_for_id: retry_delay = 1.5, in tenths
FetchDelay == 15

\* the confirmation loop: retries = 2
HttpRetries == 2

\* the confirmation loop: delay = 1, in tenths
HttpDelay == 10

\* ------------------------------------------------------ strings, urls

\* OPENSEARCH_PARQUET_PREFIX
OPENSEARCH_PARQUET_PREFIX == <<"s3://bkt/pq/">>

\* str.startswith
StartsWith(s, prefix) ==
    /\ Len(s) >= Len(prefix)
    /\ SubSeq(s, 1, Len(prefix)) = prefix

\* Position of the first token tok in s, 0 when there is none.
IndexOf(s, tok) ==
    IF \E i \in 1..Len(s) : s[i] = tok
    THEN CHOOSE i \in 1..Len(s) : s[i] = tok /\ \A k \in 1..(i - 1) : s[k] # tok
    ELSE 0

\* url.partition(sep)[2]: what follows the first sep, '' when sep is absent.
PartitionTail(s, sep) ==
    IF IndexOf(s, sep) = 0 THEN <<>> ELSE SubSeq(s, IndexOf(s, sep) + 1, Len(s))

\* s.split('/')[0]: what precedes the first '/', all of s when there is none.
SplitHead(s) ==
    IF IndexOf(s, "/") = 0 THEN s ELSE SubSeq(s, 1, IndexOf(s, "/") - 1)

\* search.py s3_url_to_uuid
s3_url_to_uuid(url) == SplitHead(PartitionTail(url, "job_id="))

\* delete.py s3_url_to_uuid (lines 57-65): the same, with 'NA' for ''.
delete_s3_url_to_uuid(url) ==
    IF SplitHead(PartitionTail(url, "job_id=")) = <<>>
    THEN <<"NA">>
    ELSE SplitHead(PartitionTail(url, "job_id="))

JobA == <<"a">>
JobB == <<"b">>

\* An object of job j under the configured prefix.
UrlOf(j) == OPENSEARCH_PARQUET_PREFIX \o <<"job_id=">> \o j \o <<"/", "part-0.parquet">>

\* An object of job j outside the configured prefix.
UrlOutside(j) == <<"s3://else/">> \o <<"job_id=">> \o j \o <<"/", "part-0.parquet">>

\* The job ids of the modelled stats index.
JobIds == {JobA, JobB}

\* ------------------------------------------------- the remote contents

\* A stats record (its _source).  Of its fields the model keeps the s3_url;
\* whether the fields the point query is built from are present and well
\* formed is decided where the program reads them (BuildParams).
StatsDoc(url) == [s3_url |-> url]

\* The contents of the stats index that the full run is checked with, in
\* the order of the scan: two jobs with a record outside the prefix
\* between them, one job with two records, no job under the prefix.
StatsIndexes ==
    { <<StatsDoc(UrlOf(JobA)), StatsDoc(UrlOutside(JobA)), StatsDoc(UrlOf(JobB))>>,
      <<StatsDoc(UrlOf(JobA)), StatsDoc(UrlOf(JobA))>>,
      <<StatsDoc(UrlOutside(JobB))>> }

\* Source files that jobs ingested.
Srcs == {"f1", "f2"}

\* End times of jobs.
Times == {1, 2}

\* A record of the files index (its _source): the source file and the end
\* time of the job.
FileDocs == [s3_url : Srcs, job_end_time : Times]

\* Sequences over S of length at most n.
SeqUpTo(S, n) == UNION { [1..k -> S] : k \in 0..n }

\* A point of the external service.
PointKeys == {"k1", "k2"}

Points == [key : PointKeys, job_id : JobIds]

\* The empty dict.
EmptyMap == [k \in {} |-> k]

\* d[k] = v of a dict.
Put(d, k, v) == [x \in (DOMAIN d) \cup {k} |-> IF x = k THEN v ELSE d[x]]

\* ---------------------------------------------------------------- state

VARIABLES
    statsIndex,              \* the records of the stats index, as scanned
    pc,                      \* where the main thread of search.py is
    docs, added, skipped,    \* counters of the stats enumeration
    ingest_uuids,            \* the set, and from line 130 on the list, of job ids
    uuid_to_stats,           \* job id -> the retained stats record
    futures,                 \* the job ids submitted to the pool, in order
    task,                    \* job id -> the state of its get_es_docs_for_id call
    ingest_records,          \* the (id, records) results collected
    unconfirmed_duplicates,
    confirmed_duplicates,
    src_id_map,              \* source file -> list of <<job id, time>>
    src_keys,                \* the keys of src_id_map in insertion order
    todo,                    \* what the running for loop has still to visit
    suspected_duplicates,
    missing_ingest_records,
    fb,                      \* the locals of the confirmation of one job
    output,                  \* the documents written to search_result.json
    uu,                      \* one url and what s3_url_to_uuid makes of it
    dl                       \* the state of delete.py

enumVars  == <<docs, added, skipped, ingest_uuids, uuid_to_stats>>
poolVars  == <<futures, task, ingest_records>>
classVars == <<unconfirmed_duplicates, confirmed_duplicates, src_id_map, src_keys>>
fbVars    == <<suspected_duplicates, missing_ingest_records, fb>>
vars == <<statsIndex, pc, enumVars, poolVars, classVars, todo, fbVars, output, uu, dl>>

\* A call of get_es_docs_for_id that has not started.
NoTask == [st |-> "none", retries |-> 0, retry_delay |-> 0, records |-> <<>>,
           scanned |-> <<>>, attempts |-> 0, slept |-> <<>>]

\* A response of the external service that carries nothing.
NoResponse == [status_code |-> 0, json |-> FALSE, results |-> <<>>, next |-> "None"]

\* No confirmation in progress.  `at` is the position in the loop body,
\* `page` counts the pages asked for and `requests` the repeated requests
\* of the current page.
NoFb == [at |-> "top", next_url |-> "None", params |-> "none", delay |-> 0,
         retries |-> 0, response |-> NoResponse, insitu_points |-> <<>>,
         page |-> 0, requests |-> 0]

\* No url handed to s3_url_to_uuid.
NoUuid == [st |-> "none", url |-> <<>>, search |-> <<>>, delete |-> <<>>]

\* A response of delete_objects that carries nothing.
NoDeleteResponse == [Deleted |-> <<>>, Errors |-> <<>>]

\* delete.py not started.  `store` is the listing of the bucket, `calls`
\* the key lists handed to the delete_objects of line 76, `retry_calls`
\* counts the delete_objects of line 85 for the current batch, and
\* `failed` tells whether some call reported an error.
NoDelete == [pc |-> "off", duplicated_jobs |-> <<>>, store |-> <<>>,
             pages |-> <<>>, to_delete |-> <<>>, batches |-> <<>>,
             resp |-> NoDeleteResponse, retries |-> 0, retry_calls |-> 0,
             calls |-> <<>>, failed |-> FALSE]

\* The state of the program at line 102, for a stats index of indexes.
InitWith(indexes) ==
    /\ statsIndex \in indexes
    /\ pc = "enum"
    /\ docs = 0 /\ added = 0 /\ skipped = 0
    /\ ingest_uuids = {}
    /\ uuid_to_stats = EmptyMap
    /\ futures = <<>>
    /\ task = [j \in JobIds |-> NoTask]
    /\ ingest_records = <<>>
    /\ unconfirmed_duplicates = <<>>
    /\ confirmed_duplicates = <<>>
    /\ src_id_map = EmptyMap
    /\ src_keys = <<>>
    /\ todo = <<>>
    /\ suspected_duplicates = <<>>
    /\ missing_ingest_records = <<>>
    /\ fb = NoFb
    /\ output = <<>>

\* ---------------------------------------------- source enumeration

\* ScanStats without the `continue` of line 114: a record outside the
\* prefix is counted as skipped and then handled like the others.
ScanStatsNoContinue(replace) ==
    /\ pc = "enum"
    /\ docs < Len(statsIndex)
    /\ docs' = docs + 1
    /\ LET doc == statsIndex[docs + 1]
           uuid == s3_url_to_uuid(doc.s3_url) IN
       /\ skipped' = IF ~StartsWith(doc.s3_url, OPENSEARCH_PARQUET_PREFIX)
                     THEN skipped + 1 ELSE skipped
       /\ added' = added + 1
       /\ ingest_uuids' = ingest_uuids \cup {uuid}
       /\ uuid_to_stats' =
            IF uuid \notin DOMAIN uuid_to_stats \/ replace
            THEN Put(uuid_to_stats, uuid, doc)
            ELSE uuid_to_stats
    /\ UNCHANGED <<uu, dl, statsIndex, pc, poolVars, classVars, todo, fbVars, output>>

\* ScanStats that stores a record only when the random draw says so.
ScanStatsReplaceOnly(replace) ==
    /\ pc = "enum"
    /\ docs < Len(statsIndex)
    /\ docs' = docs + 1
    /\ LET doc == statsIndex[docs + 1] IN
       IF ~StartsWith(doc.s3_url, OPENSEARCH_PARQUET_PREFIX)
       THEN /\ skipped' = skipped + 1
            /\ UNCHANGED <<added, ingest_uuids, uuid_to_stats>>
       ELSE LET uuid == s3_url_to_uuid(doc.s3_url) IN
            /\ added' = added + 1
            /\ ingest_uuids' = ingest_uuids \cup {uuid}
            /\ uuid_to_stats' =
                 IF replace
                 THEN Put(uuid_to_stats, uuid, doc)
                 ELSE uuid_to_stats
            /\ UNCHANGED skipped
    /\ UNCHANGED <<uu, dl, statsIndex, pc, poolVars, classVars, todo, fbVars, output>>

\* Lines 109-123: one iteration of `for doc in scroll`; replace is the
\* outcome of random.random() < 0.25.
ScanStats(replace) ==
    /\ pc = "enum"
    /\ docs < Len(statsIndex)
    /\ docs' = docs + 1
    /\ LET doc == statsIndex[docs + 1] IN
       IF ~StartsWith(doc.s3_url, OPENSEARCH_PARQUET_PREFIX)
       THEN /\ skipped' = skipped + 1
            /\ UNCHANGED <<added, ingest_uuids, uuid_to_stats>>
       ELSE LET uuid == s3_url_to_uuid(doc.s3_url) IN
            /\ added' = added + 1
            /\ ingest_uuids' = ingest_uuids \cup {uuid}
            /\ uuid_to_stats' =
                 IF uuid \notin DOMAIN uuid_to_stats \/ replace
                 THEN Put(uuid_to_stats, uuid, doc)
                 ELSE uuid_to_stats
            /\ UNCHANGED skipped
    /\ UNCHANGED <<uu, dl, statsIndex, pc, poolVars, classVars, todo, fbVars, output>>

\* Lines 125-135: the scan is exhausted; the set of ids becomes a list.
EndScan ==
    /\ pc = "enum"
    /\ docs = Len(statsIndex)
    /\ pc' = "submit"
    /\ todo' = <<>>
    /\ UNCHANGED <<uu, dl, statsIndex, enumVars, poolVars, classVars, fbVars, output>>

\* ------------------------------------------- the fetch of file records

Submitted == {futures[i] : i \in 1..Len(futures)}

\* Lines 175-177: pool.submit(get_es_docs_for_id, ingest_id) for the next
\* id of the list; the order of list(set) is not fixed.
Submit(id) ==
    /\ pc = "submit"
    /\ id \in ingest_uuids \ Submitted
    /\ futures' = Append(futures, id)
    /\ task' = [task EXCEPT ![id].st = "pending"]
    /\ UNCHANGED <<uu, dl, statsIndex, pc, enumVars, ingest_records, classVars, todo, fbVars, output>>

\* Line 179: every id is submitted; the main thread starts as_completed.
EndSubmit ==
    /\ pc = "submit"
    /\ ingest_uuids \subseteq Submitted
    /\ pc' = "collect"
    /\ UNCHANGED <<uu, dl, statsIndex, enumVars, poolVars, classVars, todo, fbVars, output>>

\* The calls that occupy a worker thread.
Running == {j \in JobIds : task[j].st \in {"loop", "scan"}}

\* Lines 138-142: a free worker takes the call and sets its locals.
StartTask(id) ==
    /\ task[id].st = "pending"
    /\ Cardinality(Running) < MAX_ES_WORKERS
    /\ task' = [task EXCEPT ![id] =
                   [NoTask EXCEPT !.st = "loop", !.retries = FetchRetries,
                                  !.retry_delay = FetchDelay]]
    /\ UNCHANGED <<uu, dl, statsIndex, pc, enumVars, futures, ingest_records, classVars, todo,
                   fbVars, output>>

\* Line 165: return id, records.  The future holds the result; the other
\* locals are gone.
Returned(t) == [NoTask EXCEPT !.st = "done", !.records = t.records]

\* LoopTest without the records = [] of line 146: an attempt goes on
\* with the records of the attempts before it.
LoopTestNoReset(id) ==
    /\ task[id].st = "loop"
    /\ task' = [task EXCEPT ![id] =
                   IF @.retries > 0
                   THEN [@ EXCEPT !.st = "scan",
                                  !.scanned = <<>>, !.attempts = @ + 1]
                   ELSE Returned(@)]
    /\ UNCHANGED <<uu, dl, statsIndex, pc, enumVars, futures, ingest_records, classVars, todo,
                   fbVars, output>>

\* Lines 144-153: the test of the while loop; an attempt starts with
\* records = [] and a new scan, or the loop is left and the call returns.
LoopTest(id) ==
    /\ task[id].st = "loop"
    /\ task' = [task EXCEPT ![id] =
                   IF @.retries > 0
                   THEN [@ EXCEPT !.st = "scan", !.records = <<>>,
                                  !.scanned = <<>>, !.attempts = @ + 1]
                   ELSE Returned(@)]
    /\ UNCHANGED <<uu, dl, statsIndex, pc, enumVars, futures, ingest_records, classVars, todo,
                   fbVars, output>>

\* Lines 155-156: the scan yields the document d.
ScanDoc(id, d) ==
    /\ task[id].st = "scan"
    /\ Len(task[id].scanned) < MaxDocs
    /\ task' = [task EXCEPT ![id].records = Append(@, d),
                            ![id].scanned = Append(@, d)]
    /\ UNCHANGED <<uu, dl, statsIndex, pc, enumVars, futures, ingest_records, classVars, todo,
                   fbVars, output>>

\* Line 158: the scan is exhausted: break, and line 165.
ScanEnd(id) ==
    /\ task[id].st = "scan"
    /\ task' = [task EXCEPT ![id] = Returned(@)]
    /\ UNCHANGED <<uu, dl, statsIndex, pc, enumVars, futures, ingest_records, classVars, todo,
                   fbVars, output>>

\* ScanFail with the delay grown by its first value instead of doubled.
ScanFailLinearDelay(id) ==
    /\ task[id].st = "scan"
    /\ task' = [task EXCEPT ![id].st = "loop",
                            ![id].retries = @ - 1,
                            ![id].slept = Append(@, task[id].retry_delay),
                            ![id].retry_delay = @ + FetchDelay]
    /\ UNCHANGED <<uu, dl, statsIndex, pc, enumVars, futures, ingest_records, classVars,
                   todo, fbVars, output>>

\* Lines 159-163: the scan raises, at its creation or at any document.
ScanFail(id) ==
    /\ task[id].st = "scan"
    /\ task' = [task EXCEPT ![id].st = "loop",
                            ![id].retries = @ - 1,
                            ![id].slept = Append(@, task[id].retry_delay),
                            ![id].retry_delay = @ * 2]
    /\ UNCHANGED <<uu, dl, statsIndex, pc, enumVars, futures, ingest_records, classVars, todo,
                   fbVars, output>>

\* Lines 179-180: as_completed yields a finished future that it has not
\* yielded yet, and its result is appended.
Collect(id) ==
    /\ pc = "collect"
    /\ task[id].st = "done"
    /\ ingest_records' = Append(ingest_records, <<id, task[id].records>>)
    /\ task' = [task EXCEPT ![id].st = "yielded"]
    /\ UNCHANGED <<uu, dl, statsIndex, pc, enumVars, futures, classVars, todo, fbVars, output>>

\* LeavePool that waits for the first result only.
LeavePoolEarly ==
    /\ pc = "collect"
    /\ \E i \in 1..Len(futures) : task[futures[i]].st = "yielded"
    /\ pc' = "map"
    /\ todo' = ingest_records
    /\ UNCHANGED <<uu, dl, statsIndex, enumVars, poolVars, classVars, fbVars, output>>

\* Lines 179-189: as_completed has yielded every future of the list; the
\* with block is left and the mapping loop starts over ingest_records.
LeavePool ==
    /\ pc = "collect"
    /\ \A i \in 1..Len(futures) : task[futures[i]].st = "yielded"
    /\ pc' = "map"
    /\ todo' = ingest_records
    /\ UNCHANGED <<uu, dl, statsIndex, enumVars, poolVars, classVars, fbVars, output>>

\* --------------------------------------- mapping and classification

\* Lines 194-200: one file record of job id enters the map; m is the pair
\* of the dict and of its keys in insertion order.
AddDoc(m, id, doc) ==
    LET src_url == doc.s3_url
        time == doc.job_end_time
    IN  IF src_url \notin DOMAIN m.map
        THEN [map |-> Put(m.map, src_url, << <<id, time>> >>),
              keys |-> Append(m.keys, src_url)]
        ELSE [map |-> Put(m.map, src_url, Append(m.map[src_url], <<id, time>>)),
              keys |-> m.keys]

\* Line 193: for doc in es_records.
RECURSIVE AddDocs(_, _, _)
AddDocs(m, id, es_records) ==
    IF es_records = <<>> THEN m
    ELSE AddDocs(AddDoc(m, id, Head(es_records)), id, Tail(es_records))

\* MapRecord that takes a job with a single file record for unconfirmed.
MapRecordOffByOne ==
    /\ pc = "map"
    /\ todo # <<>>
    /\ LET ingest_id == Head(todo)[1]
           es_records == Head(todo)[2]
           m == AddDocs([map |-> src_id_map, keys |-> src_keys], ingest_id, es_records)
       IN  IF Len(es_records) <= 1
           THEN /\ unconfirmed_duplicates' = Append(unconfirmed_duplicates, ingest_id)
                /\ UNCHANGED <<src_id_map, src_keys>>
           ELSE /\ src_id_map' = m.map
                /\ src_keys' = m.keys
                /\ UNCHANGED unconfirmed_duplicates
    /\ todo' = Tail(todo)
    /\ UNCHANGED <<uu, dl, statsIndex, pc, enumVars, poolVars, confirmed_duplicates,
                   fbVars, output>>

\* Lines 189-200: one iteration of the loop over ingest_records.
MapRecord ==
    /\ pc = "map"
    /\ todo # <<>>
    /\ LET ingest_id == Head(todo)[1]
           es_records == Head(todo)[2]
           m == AddDocs([map |-> src_id_map, keys |-> src_keys], ingest_id, es_records)
       IN  IF Len(es_records) = 0
           THEN /\ unconfirmed_duplicates' = Append(unconfirmed_duplicates, ingest_id)
                /\ UNCHANGED <<src_id_map, src_keys>>
           ELSE /\ src_id_map' = m.map
                /\ src_keys' = m.keys
                /\ UNCHANGED unconfirmed_duplicates
    /\ todo' = Tail(todo)
    /\ UNCHANGED <<uu, dl, statsIndex, pc, enumVars, poolVars, confirmed_duplicates, fbVars, output>>

\* The entries of the keys s that hold more than one pair, in order.
RECURSIVE SelectKeys(_)
SelectKeys(s) ==
    IF s = <<>> THEN <<>>
    ELSE IF Len(src_id_map[Head(s)]) > 1
         THEN <<src_id_map[Head(s)]>> \o SelectKeys(Tail(s))
         ELSE SelectKeys(Tail(s))

\* Line 202: the list comprehension is evaluated before the loop runs:
\* the entries with more than one pair, in the order of the dict.
StartClassify ==
    /\ pc = "map"
    /\ todo = <<>>
    /\ pc' = "classify"
    /\ todo' = SelectKeys(src_keys)
    /\ UNCHANGED <<uu, dl, statsIndex, enumVars, poolVars, classVars, fbVars, output>>

\* x placed in the descending list s behind every pair that is not older.
InsertDesc(x, s) ==
    LET k == Cardinality({i \in 1..Len(s) : s[i][2] >= x[2]})
    IN  SubSeq(s, 1, k) \o <<x>> \o SubSeq(s, k + 1, Len(s))

\* sorted(duplicates, key=lambda x: x[1], reverse=True): a stable sort, so
\* pairs of equal time keep the order they have in the entry.
RECURSIVE sorted_reverse(_)
sorted_reverse(s) ==
    IF s = <<>> THEN <<>>
    ELSE InsertDesc(s[Len(s)], sorted_reverse(SubSeq(s, 1, Len(s) - 1)))

\* Line 203: all pairs of the entry but the first of the sorted list.
duplicate_jobs(duplicates) == Tail(sorted_reverse(duplicates))

\* [d[0] for d in duplicate_jobs]
JobsOf(pairs) == [i \in 1..Len(pairs) |-> pairs[i][1]]

\* Lines 202-204: one iteration of the classification loop.
ClassifyEntry ==
    /\ pc = "classify"
    /\ todo # <<>>
    /\ confirmed_duplicates' =
         confirmed_duplicates \o JobsOf(duplicate_jobs(Head(todo)))
    /\ todo' = Tail(todo)
    /\ UNCHANGED <<uu, dl, statsIndex, pc, enumVars, poolVars, unconfirmed_duplicates, src_id_map,
                   src_keys, fbVars, output>>

\* Line 206: the classification loop is over.
EndClassify ==
    /\ pc = "classify"
    /\ todo = <<>>
    /\ pc' = "check"
    /\ UNCHANGED <<uu, dl, statsIndex, enumVars, poolVars, classVars, todo, fbVars, output>>

\* CheckFound without the test for empty lists.
CheckFoundAlways ==
    /\ pc = "check"
    /\ pc' = "confirm"
    /\ suspected_duplicates' = <<>>
    /\ missing_ingest_records' = <<>>
    /\ todo' = unconfirmed_duplicates
    /\ UNCHANGED <<uu, dl, statsIndex, enumVars, poolVars, classVars, fb, output>>

\* Lines 209-215: nothing to report, or the two result lists are created
\* and the confirmation loop starts over unconfirmed_duplicates.
CheckFound ==
    /\ pc = "check"
    /\ IF Len(unconfirmed_duplicates) = 0 /\ Len(confirmed_duplicates) = 0
       THEN /\ pc' = "done"
            /\ UNCHANGED <<todo, fbVars>>
       ELSE /\ pc' = "confirm"
            /\ suspected_duplicates' = <<>>
            /\ missing_ingest_records' = <<>>
            /\ todo' = unconfirmed_duplicates
            /\ UNCHANGED fb
    /\ UNCHANGED <<uu, dl, statsIndex, enumVars, poolVars, classVars, output>>

\* ------------------------------------------- the external confirmation

\* The responses of the external service: a status other than 200, or 200
\* with a body that is no JSON object with a list `results` (json FALSE),
\* or 200 with a page of points and a `next` that is a url, 'NA' or absent.
Response(code, json, results, next) ==
    [status_code |-> code, json |-> json, results |-> results, next |-> next]

Responses(pages) ==
    {Response(500, FALSE, <<>>, "None"), Response(200, FALSE, <<>>, "None")}
    \cup {Response(200, TRUE, r, n) : r \in pages, n \in {"url", "NA", "None"}}

\* Suspect that leaves the loop over the unconfirmed jobs.
SuspectAndStop ==
    /\ suspected_duplicates' = Append(suspected_duplicates, Head(todo))
    /\ todo' = <<>>
    /\ fb' = NoFb
    /\ UNCHANGED <<uu, dl, statsIndex, pc, enumVars, poolVars, classVars,
                   missing_ingest_records, output>>

\* Lines 276-277: the except clause of the job.
Suspect ==
    /\ suspected_duplicates' = Append(suspected_duplicates, Head(todo))
    /\ todo' = Tail(todo)
    /\ fb' = NoFb
    /\ UNCHANGED <<uu, dl, statsIndex, pc, enumVars, poolVars, classVars, missing_ingest_records, output>>

\* BuildParams that files a job whose stats cannot be used under
\* missing_ingest_records.
BuildParamsMissing(wellformed) ==
    /\ pc = "confirm"
    /\ fb.at = "top"
    /\ todo # <<>>
    /\ IF Head(todo) \in DOMAIN uuid_to_stats /\ wellformed
       THEN /\ fb' = [NoFb EXCEPT !.at = "page", !.next_url = "url",
                                  !.params = "query"]
            /\ UNCHANGED <<uu, dl, statsIndex, pc, enumVars, poolVars, classVars, todo,
                           suspected_duplicates, missing_ingest_records, output>>
       ELSE /\ missing_ingest_records' = Append(missing_ingest_records, Head(todo))
            /\ todo' = Tail(todo)
            /\ fb' = NoFb
            /\ UNCHANGED <<uu, dl, statsIndex, pc, enumVars, poolVars, classVars,
                           suspected_duplicates, output>>

\* Lines 215-241: the next unconfirmed job.  Its stats record is looked up
\* and the parameters of the query are built from its fields; wellformed
\* tells whether every field read is present and of the expected type.
BuildParams(wellformed) ==
    /\ pc = "confirm"
    /\ fb.at = "top"
    /\ todo # <<>>
    /\ IF Head(todo) \in DOMAIN uuid_to_stats /\ wellformed
       THEN /\ fb' = [NoFb EXCEPT !.at = "page", !.next_url = "url",
                                  !.params = "query"]
            /\ UNCHANGED <<uu, dl, statsIndex, pc, enumVars, poolVars, classVars, todo,
                           suspected_duplicates, missing_ingest_records, output>>
       ELSE Suspect

\* Lines 243-247: a page is asked for; the service answers r, or the
\* request raises.
GetPage(r, raises) ==
    /\ pc = "confirm"
    /\ fb.at = "page"
    /\ fb.next_url = "url"
    /\ fb.page < MaxPages
    /\ r.next = "url" => fb.page + 1 < MaxPages
    /\ IF raises
       THEN Suspect
       ELSE /\ fb' = [fb EXCEPT !.at = "response", !.delay = HttpDelay,
                                !.retries = HttpRetries, !.response = r,
                                !.page = @ + 1, !.requests = 0]
            /\ UNCHANGED <<uu, dl, statsIndex, pc, enumVars, poolVars, classVars, todo,
                           suspected_duplicates, missing_ingest_records, output>>

\* Lines 249-252: the response is not a 200: sleep, double the delay and
\* ask again.
RetryPage(r, raises) ==
    /\ pc = "confirm"
    /\ fb.at = "response"
    /\ fb.retries > 0 /\ fb.response.status_code # 200
    /\ fb.requests < MaxPageRetries
    /\ r.next = "url" => fb.page < MaxPages
    /\ IF raises
       THEN Suspect
       ELSE /\ fb' = [fb EXCEPT !.delay = @ * 2, !.response = r,
                                !.requests = @ + 1]
            /\ UNCHANGED <<uu, dl, statsIndex, pc, enumVars, poolVars, classVars, todo,
                           suspected_duplicates, missing_ingest_records, output>>

\* Lines 254-260: the retry loop is left: raise_for_status, the body is
\* parsed, its points are kept and the next url is read.
ReadPage ==
    /\ pc = "confirm"
    /\ fb.at = "response"
    /\ ~(fb.retries > 0 /\ fb.response.status_code # 200)
    /\ IF fb.response.status_code # 200 \/ ~fb.response.json
       THEN Suspect
       ELSE /\ fb' = [fb EXCEPT !.at = "page",
                                !.insitu_points = @ \o fb.response.results,
                                !.next_url = fb.response.next,
                                !.params = "none"]
            /\ UNCHANGED <<uu, dl, statsIndex, pc, enumVars, poolVars, classVars, todo,
                           suspected_duplicates, missing_ingest_records, output>>

\* Lines 262-269: the job ids of the points, by (time, latitude,
\* longitude, depth).
insitu_dict(points) ==
    [k \in {points[i].key : i \in 1..Len(points)} |->
        LET at == {i \in 1..Len(points) : points[i].key = k} IN
        [n \in 1..Cardinality(at) |->
            points[CHOOSE i \in at : Cardinality({x \in at : x <= i}) = n].job_id]]

\* Line 271: any([len(insitu_dict[k]) > 1 for k in insitu_dict])
HasDuplicates(points) ==
    \E k \in DOMAIN insitu_dict(points) : Len(insitu_dict(points)[k]) > 1

\* Lines 243, 262-275: there is no next page; the points are grouped and
\* the job is classified.
Group ==
    /\ pc = "confirm"
    /\ fb.at = "page"
    /\ fb.next_url \in {"None", "NA"}
    /\ IF HasDuplicates(fb.insitu_points)
       THEN /\ confirmed_duplicates' = Append(confirmed_duplicates, Head(todo))
            /\ UNCHANGED missing_ingest_records
       ELSE /\ missing_ingest_records' = Append(missing_ingest_records, Head(todo))
            /\ UNCHANGED confirmed_duplicates
    /\ todo' = Tail(todo)
    /\ fb' = NoFb
    /\ UNCHANGED <<uu, dl, statsIndex, pc, enumVars, poolVars, unconfirmed_duplicates, src_id_map,
                   src_keys, suspected_duplicates, output>>

\* ---------------------------------------------------------- the output

\* Lines 282-290: the result is written to search_result.json.
WriteOutput ==
    /\ pc = "confirm"
    /\ fb.at = "top"
    /\ todo = <<>>
    /\ output' = Append(output,
                        [confirmed_duplicates |-> confirmed_duplicates,
                         suspected_duplicates |-> suspected_duplicates,
                         missing_ingest_records |-> missing_ingest_records])
    /\ pc' = "done"
    /\ UNCHANGED <<uu, dl, statsIndex, enumVars, poolVars, classVars, todo, fbVars>>

\* ------------------------------------------------------ specifications

\* The pages of points: a page carries one point or none, so that MaxPages
\* bounds the points of a job.
Pages(points) == {<<>>} \cup {<<p>> : p \in points}

\* The full run is checked with every content of the files index and with
\* one point of the external service.
RunPages == Pages({[key |-> "k1", job_id |-> JobA]})

Next ==
    \/ \E replace \in BOOLEAN : ScanStats(replace)
    \/ EndScan
    \/ \E id \in JobIds : Submit(id)
    \/ EndSubmit
    \/ \E id \in JobIds : StartTask(id)
    \/ \E id \in JobIds : LoopTest(id)
    \/ \E id \in JobIds, d \in FileDocs : ScanDoc(id, d)
    \/ \E id \in JobIds : ScanEnd(id)
    \/ \E id \in JobIds : ScanFail(id)
    \/ \E id \in JobIds : Collect(id)
    \/ LeavePool
    \/ MapRecord
    \/ StartClassify
    \/ ClassifyEntry
    \/ EndClassify
    \/ CheckFound
    \/ \E wellformed \in BOOLEAN : BuildParams(wellformed)
    \/ \E r \in Responses(RunPages), raises \in BOOLEAN : GetPage(r, raises)
    \/ \E r \in Responses(RunPages), raises \in BOOLEAN : RetryPage(r, raises)
    \/ ReadPage
    \/ Group
    \/ WriteOutput

Init == InitWith(StatsIndexes) /\ uu = NoUuid /\ dl = NoDelete

Spec == Init /\ [][Next]_vars

\* The confirmation is checked with every point of the external service
\* and with one file record.
ConfirmDocs == {[s3_url |-> "f1", job_end_time |-> 1]}

NextConfirm ==
    \/ \E replace \in BOOLEAN : ScanStats(replace)
    \/ EndScan
    \/ \E id \in JobIds : Submit(id)
    \/ EndSubmit
    \/ \E id \in JobIds : StartTask(id)
    \/ \E id \in JobIds : LoopTest(id)
    \/ \E id \in JobIds, d \in ConfirmDocs : ScanDoc(id, d)
    \/ \E id \in JobIds : ScanEnd(id)
    \/ \E id \in JobIds : ScanFail(id)
    \/ \E id \in JobIds : Collect(id)
    \/ LeavePool
    \/ MapRecord
    \/ StartClassify
    \/ ClassifyEntry
    \/ EndClassify
    \/ CheckFound
    \/ \E wellformed \in BOOLEAN : BuildParams(wellformed)
    \/ \E r \in Responses(Pages(Points)), raises \in BOOLEAN : GetPage(r, raises)
    \/ \E r \in Responses(Pages(Points)), raises \in BOOLEAN : RetryPage(r, raises)
    \/ ReadPage
    \/ Group
    \/ WriteOutput

SpecConfirm == Init /\ [][NextConfirm]_vars

\* ------------------------------------------------ the enumeration alone

\* The most records of the stats index, when the enumeration is checked
\* alone.
MaxStats == 3

\* A second object of job j under the configured prefix.
UrlPart1(j) == OPENSEARCH_PARQUET_PREFIX \o <<"job_id=">> \o j \o <<"/", "part-1.parquet">>

\* The stats records the enumeration is checked with: two objects of job
\* a, one of job b, one of job a outside the prefix.
StatsRecords ==
    { StatsDoc(UrlOf(JobA)), StatsDoc(UrlPart1(JobA)), StatsDoc(UrlOf(JobB)),
      StatsDoc(UrlOutside(JobA)) }

InitEnum ==
    /\ InitWith(SeqUpTo(StatsRecords, MaxStats))
    /\ uu = NoUuid
    /\ dl = NoDelete

NextEnum ==
    \/ \E replace \in BOOLEAN : ScanStats(replace)
    \/ EndScan

SpecEnum == InitEnum /\ [][NextEnum]_vars

\* ------------------------------------------------ s3_url_to_uuid alone

\* The longest url handed to s3_url_to_uuid.
MaxUrlLen == 3

\* What urls are made of: the marker 'job_id=', the separator '/', and
\* other text.
UrlTokens == {"job_id=", "/", "a", "b"}

\* The urls handed to s3_url_to_uuid.
Urls == SeqUpTo(UrlTokens, MaxUrlLen)

\* search.py line 117 and delete.py line 70: the function of either
\* script is applied to the url.
ExtractIds ==
    /\ uu.st = "in"
    /\ uu' = [uu EXCEPT !.st = "out",
                        !.search = s3_url_to_uuid(uu.url),
                        !.delete = delete_s3_url_to_uuid(uu.url)]
    /\ UNCHANGED <<dl, statsIndex, pc, enumVars, poolVars, classVars, todo,
                   fbVars, output>>

InitUuid ==
    /\ InitWith({<<>>})
    /\ uu \in {[NoUuid EXCEPT !.st = "in", !.url = u] : u \in Urls}
    /\ dl = NoDelete

NextUuid == ExtractIds

SpecUuid == InitUuid /\ [][NextUuid]_vars

\* ----------------------------------------------------------- delete.py

\* The batches of delete.py hold 1000 keys (line 72); the model batches by
\* BatchSize keys.
BatchSize == 2

\* The most keys of a page of the listing.
MaxPageKeys == 3

\* delete.py line 81: retries = 3
DeleteRetries == 3

\* The most delete_objects calls of line 85 explored for one batch.
MaxBatchRetries == 4

\* The key of an object of job j.
ObjKey(j, part) == <<"pq/", "job_id=">> \o j \o <<"/", part>>

\* The objects under the prefix in the order of the listing; one of them
\* has no job id in its key.
ObjectList ==
    << ObjKey(JobA, "part-0"), ObjKey(JobB, "part-0"), <<"pq/", "readme">>,
       ObjKey(JobA, "part-1"), ObjKey(JobB, "part-1"), ObjKey(JobA, "part-2"),
       ObjKey(JobB, "part-2"), ObjKey(JobA, "part-3") >>

\* The lists of confirmed duplicates read from search_result.json.
DuplicateLists == {<<>>, <<JobA>>, <<JobB>>, <<JobA, JobB>>}

\* The elements of s at the positions P, in the order of s.
Pick(s, P) ==
    LET at == P \cap (1..Len(s)) IN
    [n \in 1..Cardinality(at) |->
        s[CHOOSE i \in at : Cardinality({x \in at : x <= i}) = n]]

\* The pages that the paginator yields for a listing: at most MaxPageKeys
\* keys each, one page without Contents for an empty listing.
ListingPages(listing) ==
    IF listing = <<>> THEN << <<>> >>
    ELSE [n \in 1..((Len(listing) + MaxPageKeys - 1) \div MaxPageKeys) |->
            SubSeq(listing, (n - 1) * MaxPageKeys + 1,
                   IF n * MaxPageKeys < Len(listing) THEN n * MaxPageKeys
                                                     ELSE Len(listing))]

\* Line 70: s3_url_to_uuid(k['Key']) in duplicated_jobs
IsDuplicated(key, duplicated_jobs) ==
    \E i \in 1..Len(duplicated_jobs) :
        duplicated_jobs[i] = delete_s3_url_to_uuid(key)

\* Lines 68-70: the keys of one page of the listing are filtered and
\* appended to to_delete.
ListPage ==
    /\ dl.pc = "list"
    /\ dl.pages # <<>>
    /\ dl' = [dl EXCEPT
                !.to_delete = @ \o SelectSeq(Head(dl.pages),
                                   LAMBDA k : IsDuplicated(k, dl.duplicated_jobs)),
                !.pages = Tail(@)]
    /\ UNCHANGED <<uu, statsIndex, pc, enumVars, poolVars, classVars, todo,
                   fbVars, output>>

\* Batches whose slices are one key too long.
BatchesOverlap(to_delete) ==
    [n \in 1..((Len(to_delete) + BatchSize - 1) \div BatchSize) |->
        SubSeq(to_delete, (n - 1) * BatchSize + 1,
               IF n * BatchSize + 1 < Len(to_delete) THEN n * BatchSize + 1
                                                     ELSE Len(to_delete))]

\* Line 72: [to_delete[i:i+1000] for i in range(0, len(to_delete), 1000)]
Batches(to_delete) ==
    [n \in 1..((Len(to_delete) + BatchSize - 1) \div BatchSize) |->
        SubSeq(to_delete, (n - 1) * BatchSize + 1,
               IF n * BatchSize < Len(to_delete) THEN n * BatchSize
                                                 ELSE Len(to_delete))]

\* Line 72: the listing is exhausted and the batches are cut.
MakeBatches ==
    /\ dl.pc = "list"
    /\ dl.pages = <<>>
    /\ dl' = [dl EXCEPT !.pc = "batch", !.batches = Batches(dl.to_delete)]
    /\ UNCHANGED <<uu, statsIndex, pc, enumVars, poolVars, classVars, todo,
                   fbVars, output>>

\* What delete_objects answers for the keys sent when the keys at the
\* positions errs could not be deleted.
DeleteResponse(keys, errs) ==
    [Deleted |-> Pick(keys, (1..Len(keys)) \ errs), Errors |-> Pick(keys, errs)]

\* Lines 74-81: the next batch is handed to delete_objects; when not all
\* of its keys are reported deleted, retries is set.
DeleteBatch(errs) ==
    /\ dl.pc = "batch"
    /\ dl.batches # <<>>
    /\ errs \subseteq 1..Len(Head(dl.batches))
    /\ LET batch == Head(dl.batches)
           resp == DeleteResponse(batch, errs) IN
       IF Len(resp.Deleted) # Len(batch)
       THEN dl' = [dl EXCEPT !.pc = "retry", !.resp = resp,
                             !.retries = DeleteRetries,
                             !.calls = Append(@, batch), !.failed = TRUE]
       ELSE dl' = [dl EXCEPT !.batches = Tail(@), !.resp = NoDeleteResponse,
                             !.calls = Append(@, batch)]
    /\ UNCHANGED <<uu, statsIndex, pc, enumVars, poolVars, classVars, todo,
                   fbVars, output>>

\* RetryDelete that counts retries down.
RetryDeleteCounted(errs) ==
    /\ dl.pc = "retry"
    /\ Len(dl.resp.Errors) > 0 /\ dl.retries > 0
    /\ dl.retry_calls < MaxBatchRetries
    /\ errs \subseteq 1..Len(dl.resp.Errors)
    /\ dl' = [dl EXCEPT !.resp = DeleteResponse(dl.resp.Errors, errs),
                        !.retries = @ - 1,
                        !.retry_calls = @ + 1]
    /\ UNCHANGED <<uu, statsIndex, pc, enumVars, poolVars, classVars, todo,
                   fbVars, output>>

\* Lines 83-88: errors are left and retries > 0: the keys of the errors
\* are handed to delete_objects again.  retries is not assigned in the
\* loop.
RetryDelete(errs) ==
    /\ dl.pc = "retry"
    /\ Len(dl.resp.Errors) > 0 /\ dl.retries > 0
    /\ dl.retry_calls < MaxBatchRetries
    /\ errs \subseteq 1..Len(dl.resp.Errors)
    /\ dl' = [dl EXCEPT !.resp = DeleteResponse(dl.resp.Errors, errs),
                        !.retry_calls = @ + 1]
    /\ UNCHANGED <<uu, statsIndex, pc, enumVars, poolVars, classVars, todo,
                   fbVars, output>>

\* Line 83: the while loop is left, and the for loop of line 74 goes on.
EndRetry ==
    /\ dl.pc = "retry"
    /\ ~(Len(dl.resp.Errors) > 0 /\ dl.retries > 0)
    /\ dl' = [dl EXCEPT !.pc = "batch", !.batches = Tail(@),
                        !.resp = NoDeleteResponse, !.retries = 0,
                        !.retry_calls = 0]
    /\ UNCHANGED <<uu, statsIndex, pc, enumVars, poolVars, classVars, todo,
                   fbVars, output>>

\* Line 74: no batch is left.
EndDelete ==
    /\ dl.pc = "batch"
    /\ dl.batches = <<>>
    /\ dl' = [dl EXCEPT !.pc = "done"]
    /\ UNCHANGED <<uu, statsIndex, pc, enumVars, poolVars, classVars, todo,
                   fbVars, output>>

\* delete.py at line 68: the result of the search is read and the listing
\* of the bucket starts.
InitDelete ==
    /\ InitWith({<<>>})
    /\ uu = NoUuid
    /\ dl \in { [NoDelete EXCEPT !.pc = "list", !.duplicated_jobs = d,
                                  !.store = SubSeq(ObjectList, 1, n),
                                  !.pages = ListingPages(SubSeq(ObjectList, 1, n))] :
                 d \in DuplicateLists, n \in 0..Len(ObjectList) }

NextDelete ==
    \/ ListPage
    \/ MakeBatches
    \/ \E errs \in SUBSET (1..BatchSize) : DeleteBatch(errs)
    \/ \E errs \in SUBSET (1..BatchSize) : RetryDelete(errs)
    \/ EndRetry
    \/ EndDelete

SpecDelete == InitDelete /\ [][NextDelete]_vars

\* ============================================================ properties

Range(s) == {s[i] : i \in 1..Len(s)}

\* The jobs appended to confirmed_duplicates by the step.
AddedJobs ==
    SubSeq(confirmed_duplicates', Len(confirmed_duplicates) + 1,
           Len(confirmed_duplicates'))

\* The jobs of the entry that carry its maximum timestamp.
LatestJobs(entry) ==
    {entry[i][1] : i \in {n \in 1..Len(entry) :
                             \A k \in 1..Len(entry) : entry[k][2] <= entry[n][2]}}

\* A step of the classification loop over one entry.
ClassifyStep == pc = "classify" /\ todo # <<>> /\ todo' = Tail(todo)

\* C1: processing an entry of N >= 2 pairs adds exactly N-1 job ids to
\* confirmed_duplicates, and the job that carries the maximum timestamp of
\* the entry is not among them.
C1_LatestNeverAdded ==
    [][ClassifyStep =>
          /\ Len(AddedJobs) = Len(Head(todo)) - 1
          /\ Cardinality(LatestJobs(Head(todo))) = 1
                => LatestJobs(Head(todo)) \cap Range(AddedJobs) = {}]_vars

\* The source files of one fetch result.
SourcesOf(result) == {result[2][i].s3_url : i \in 1..Len(result[2])}

\* A job is a duplicate when another job has a file record for one of its
\* source files.
IsDuplicate(result) ==
    \E other \in Range(ingest_records) :
        /\ other[1] # result[1]
        /\ SourcesOf(other) \cap SourcesOf(result) # {}

\* The three result lists are pairwise disjoint as sets of job ids.
OutputsDisjoint ==
    /\ Range(confirmed_duplicates) \cap Range(suspected_duplicates) = {}
    /\ Range(confirmed_duplicates) \cap Range(missing_ingest_records) = {}
    /\ Range(suspected_duplicates) \cap Range(missing_ingest_records) = {}

\* C2: when the run completes the three output collections are pairwise
\* disjoint, every job whose fetch returned no file record is in exactly
\* one of them, and a job with file records that is no duplicate is in
\* none of them.
C2_ExactlyOneSet ==
    (pc = "done" /\ output # <<>>) =>
        /\ OutputsDisjoint
        /\ \A r \in Range(ingest_records) :
              LET in == r[1] \in Range(confirmed_duplicates)
                                 \cup Range(suspected_duplicates)
                                 \cup Range(missing_ingest_records)
              IN  /\ r[2] = <<>> => in
                  /\ (r[2] # <<>> /\ ~IsDuplicate(r)) => ~in

\* C3: after the classifier and before the confirmation,
\* confirmed_duplicates and unconfirmed_duplicates are disjoint:
\* unconfirmed_duplicates holds only jobs whose fetch returned no file
\* record, and confirmed_duplicates only jobs with a file record under a
\* source file that has two or more pairs.
C3_ClassifierDisjoint ==
    pc = "check" =>
        /\ Range(confirmed_duplicates) \cap Range(unconfirmed_duplicates) = {}
        /\ \A j \in Range(unconfirmed_duplicates) :
              \A r \in Range(ingest_records) : r[1] = j => r[2] = <<>>
        /\ \A j \in Range(confirmed_duplicates) :
              \E r \in Range(ingest_records) :
                  /\ r[1] = j
                  /\ \E src \in SourcesOf(r) : Len(src_id_map[src]) >= 2

\* C3's case: the classifier has produced both lists.
C3_Witness ==
    /\ pc = "check"
    /\ confirmed_duplicates # <<>>
    /\ unconfirmed_duplicates # <<>>

\* C4: when every attempt of get_es_docs_for_id has failed, wherever each
\* scan failed, the call returns an empty list of records.
C4_EmptyWhenExhausted ==
    [][\A id \in JobIds :
          (task[id].st = "loop" /\ task[id].retries = 0 /\ task'[id].st = "done")
              => task'[id].records = <<>>]_vars

\* The delays of the first, second and third failed attempt, in tenths.
Delays == <<15, 30, 60>>

\* C5: get_es_docs_for_id makes at most 3 attempts, every attempt but the
\* running one has failed (none follows a success), the delays slept
\* after the failures are 1.5, 3 and 6, and after the third failure the
\* loop is left.
C5_ThreeAttempts ==
    \A id \in JobIds :
        LET t == task[id] IN
        t.st \in {"loop", "scan"} =>
            /\ t.attempts <= 3
            /\ t.attempts = Len(t.slept) + (IF t.st = "scan" THEN 1 ELSE 0)
            /\ t.slept = SubSeq(Delays, 1, Len(t.slept))
            /\ t.retries = 3 - Len(t.slept)
            /\ (t.st = "scan") => t.retries > 0

\* C5's case: three attempts have failed and the three delays were slept.
C5_Witness == \E id \in JobIds : task[id].slept = Delays /\ task[id].attempts = 3

\* C6: the dispatcher submits each key once, and when its block is left
\* ingest_records holds exactly one result for each submitted job id.
C6_OneResultPerKey ==
    /\ \A i, k \in 1..Len(futures) : futures[i] = futures[k] => i = k
    /\ \A i, k \in 1..Len(ingest_records) :
          ingest_records[i][1] = ingest_records[k][1] => i = k
    /\ pc \notin {"enum", "submit", "collect"} =>
          /\ Submitted = ingest_uuids
          /\ {ingest_records[i][1] : i \in 1..Len(ingest_records)} = Submitted

\* C6's case: the block is left with two results, collected in another
\* order than the jobs were submitted in.
C6_Witness ==
    /\ pc = "map"
    /\ Len(ingest_records) = 2
    /\ ingest_records[1][1] # futures[1]

\* A step that classifies the job under confirmation from its points.
GroupStep ==
    /\ pc = "confirm" /\ fb.at = "page" /\ fb.next_url \in {"None", "NA"}
    /\ todo' = Tail(todo)

\* Some group of points of equal key holds points of more than one job.
SeveralJobs(points) ==
    \E i, k \in 1..Len(points) :
        points[i].key = points[k].key /\ points[i].job_id # points[k].job_id

\* C7: when the query completes, the job is added to confirmed_duplicates
\* if and only if some group of points of equal (time, latitude,
\* longitude, depth) holds points of more than one distinct job id, and
\* to missing_ingest_records otherwise.
C7_DistinctJobs ==
    [][GroupStep =>
          IF SeveralJobs(fb.insitu_points)
          THEN /\ confirmed_duplicates' = Append(confirmed_duplicates, Head(todo))
               /\ missing_ingest_records' = missing_ingest_records
          ELSE /\ missing_ingest_records' = Append(missing_ingest_records, Head(todo))
               /\ confirmed_duplicates' = confirmed_duplicates]_vars

C9_RetryBounded == fb.requests <= HttpRetries

NoStatsStep ==
    /\ pc = "confirm" /\ fb.at = "top" /\ todo # <<>>
    /\ todo' = Tail(todo)

Sentinels == {<<"unknown">>, <<"NA">>}

\* The text between the first 'job_id=' of url and the first '/' after it.
SegmentOf(url) ==
    LET i == CHOOSE n \in 1..Len(url) :
                 url[n] = "job_id=" /\ \A k \in 1..(n - 1) : url[k] # "job_id="
        j == CHOOSE n \in (i + 1)..Len(url) :
                 url[n] = "/" /\ \A k \in (i + 1)..(n - 1) : url[k] # "/"
    IN  [k \in 1..(j - i - 1) |-> url[i + k]]

\* url holds a segment job_id=X/.
HasSegment(url) ==
    \E i \in 1..Len(url) :
        /\ url[i] = "job_id="
        /\ \A k \in 1..(i - 1) : url[k] # "job_id="
        /\ \E j \in (i + 1)..Len(url) : url[j] = "/"

\* C12: s3_url_to_uuid of search.py and of delete.py both return X for a
\* url with a segment job_id=X/ (the first one), both return the sentinel
\* for a url without 'job_id=', and both return the same for every url.
C12_SameIdentifier ==
    uu.st = "out" =>
        /\ HasSegment(uu.url) =>
               uu.search = SegmentOf(uu.url) /\ uu.delete = SegmentOf(uu.url)
        /\ (\A i \in 1..Len(uu.url) : uu.url[i] # "job_id=") =>
               uu.search \in Sentinels /\ uu.delete \in Sentinels
        /\ uu.search = uu.delete

\* The positions of the stats index visited so far whose record is not
\* skipped: its s3_url starts with the configured prefix.
Visited == {i \in 1..docs : StartsWith(statsIndex[i].s3_url, OPENSEARCH_PARQUET_PREFIX)}

\* C13: the enumeration visits every stats record once; after every record
\* docs = added + skipped; a record is skipped exactly when its s3_url
\* does not start with the prefix; ingest_uuids is the set of the job ids
\* of the records not skipped.
C13_EnumerationCounts ==
    /\ docs <= Len(statsIndex)
    /\ pc # "enum" => docs = Len(statsIndex)
    /\ docs = added + skipped
    /\ added = Cardinality(Visited)
    /\ skipped = Cardinality((1..docs) \ Visited)
    /\ ingest_uuids = {s3_url_to_uuid(statsIndex[i].s3_url) : i \in Visited}

\* C13's case: two jobs under the prefix and one record outside of it.
C13_Witness ==
    /\ pc = "submit"
    /\ docs = 3
    /\ Cardinality(ingest_uuids) = 2
    /\ skipped = 1

\* C17: uuid_to_stats has an entry for every job id of ingest_uuids and
\* for no other key, and the entry of a job is one of the records not
\* skipped whose job id it is.
C17_OneStatsPerJob ==
    /\ DOMAIN uuid_to_stats = ingest_uuids
    /\ \A j \in DOMAIN uuid_to_stats :
          \E i \in Visited :
              /\ uuid_to_stats[j] = statsIndex[i]
              /\ s3_url_to_uuid(statsIndex[i].s3_url) = j

\* C17's case: the enumeration is over, job a has two different records
\* not skipped, and the later one is retained.
C17_Witness ==
    /\ pc = "submit"
    /\ Len(statsIndex) = 3
    /\ statsIndex[1] = StatsDoc(UrlOf(JobA))
    /\ statsIndex[3] = StatsDoc(UrlPart1(JobA))
    /\ uuid_to_stats[JobA] = statsIndex[3]

\* The concatenation of the sequences of ss.
RECURSIVE Flatten(_)
Flatten(ss) == IF ss = <<>> THEN <<>> ELSE Head(ss) \o Flatten(Tail(ss))

\* The keys of the listing whose job id is among the confirmed duplicates.
Doomed ==
    SelectSeq(dl.store,
              LAMBDA k : \E i \in 1..Len(dl.duplicated_jobs) :
                             /\ Len(k) >= 4
                             /\ k[2] = "job_id=" /\ k[4] = "/"
                             /\ <<k[3]>> = dl.duplicated_jobs[i])

\* C14: when no delete call reports a failure, delete.py hands K keys to
\* ceil(K / BatchSize) delete_objects calls of at most BatchSize keys each,
\* consecutive slices that cover every key once, and only keys whose job
\* id is among the confirmed duplicates are handed over.
C14_BatchesCoverOnce ==
    /\ \A c \in 1..Len(dl.calls) :
          /\ Len(dl.calls[c]) <= BatchSize
          /\ \A i \in 1..Len(dl.calls[c]) :
                IsDuplicated(dl.calls[c][i], dl.duplicated_jobs)
    /\ dl.pc = "done" /\ ~dl.failed =>
          /\ Flatten(dl.calls) = Doomed
          /\ \A c \in 1..Len(dl.calls) : Len(dl.calls[c]) >= 1
          /\ \A c \in 1..(Len(dl.calls) - 1) : Len(dl.calls[c]) = BatchSize
          /\ Len(dl.calls) * BatchSize >= Len(Doomed)
          /\ (Len(dl.calls) - 1) * BatchSize < Len(Doomed) \/ Len(dl.calls) = 0

\* C14's case: 2 * BatchSize + 1 keys were deleted by three calls of
\* BatchSize, BatchSize and 1 keys, none of which failed.
C14_Witness ==
    /\ dl.pc = "done" /\ ~dl.failed
    /\ Len(dl.to_delete) = 2 * BatchSize + 1
    /\ Len(dl.calls) = 3
    /\ Len(dl.calls[1]) = BatchSize
    /\ Len(dl.calls[2]) = BatchSize
    /\ Len(dl.calls[3]) = 1
    /\ Len(dl.store) > Len(dl.to_delete)

\* C15: the keys of a batch that failed are retried at most 3 times: the
\* retry loop ends after at most 3 delete_objects calls even when errors
\* persist.
C15_DeleteRetryBounded == dl.retry_calls <= DeleteRetries

\* No element of the list s is repeated.
NoRepeat(s) == \A i, j \in 1..Len(s) : s[i] = s[j] => i = j

\* No job has two file records for one source file.
OncePerSource ==
    \A k \in DOMAIN src_id_map :
        NoRepeat([i \in 1..Len(src_id_map[k]) |-> src_id_map[k][i][1]])

\* C16: the confirmed result holds every job id at most once, at the end
\* of the run and in the written output, also for a job that is not the
\* latest under several shared source files.
C16_ConfirmedOnce ==
    pc = "done" /\ OncePerSource =>
        /\ NoRepeat(confirmed_duplicates)
        /\ \A i \in 1..Len(output) : NoRepeat(output[i].confirmed_duplicates)

\* C18: when an attempt of get_es_docs_for_id succeeds, after failed
\* attempts or not, the list returned holds exactly the documents that
\* this attempt read: during an attempt records holds what its scan has
\* yielded, and the return after the end of the scan hands over just that.
C18_OnlySuccessfulAttempt ==
    [][\A id \in JobIds :
          /\ task'[id].st = "scan" => task'[id].records = task'[id].scanned
          /\ task[id].st = "scan" /\ task'[id].st = "done" =>
                task'[id].records = task[id].scanned]_vars

\* C18's case: a call whose first attempt failed is in its second
\* attempt, and the scan of this attempt has yielded MaxDocs documents.
C18_Witness ==
    \E id \in JobIds :
        /\ task[id].st = "scan"
        /\ task[id].attempts = 2
        /\ Len(task[id].slept) = 1
        /\ Len(task[id].scanned) = MaxDocs
        /\ task[id].records = task[id].scanned

\* The orders in which the fetch results of recs can be collected.
Orders(recs) ==
    {p \in [1..Len(recs) -> Range(recs)] : Range(p) = Range(recs)}

\* The map of lines 189-200 for the fetch results recs.
RECURSIVE MapOf(_, _)
MapOf(m, recs) ==
    IF recs = <<>> THEN m
    ELSE MapOf(IF Len(Head(recs)[2]) = 0 THEN m
               ELSE AddDocs(m, Head(recs)[1], Head(recs)[2]),
               Tail(recs))

\* The jobs that lines 202-204 confirm for the fetch results recs.
ConfirmedOf(recs) ==
    LET map == MapOf([map |-> EmptyMap, keys |-> <<>>], recs).map IN
    UNION { Range(JobsOf(duplicate_jobs(map[k]))) :
               k \in {x \in DOMAIN map : Len(map[x]) > 1} }

\* The jobs that line 191 leaves unconfirmed for the fetch results recs.
UnconfirmedOf(recs) == {r[1] : r \in {x \in Range(recs) : Len(x[2]) = 0}}

\* C19: for given fetch results the confirmed and the unconfirmed jobs
\* after the classification are the same for every order in which the
\* fetches complete, also with equal timestamps under one source file,
\* and src_id_map is not written before all fetches are collected.
C19_OrderIndependent ==
    /\ pc \in {"enum", "submit", "collect"} =>
          src_id_map = EmptyMap /\ src_keys = <<>>
    /\ pc = "check" =>
          \A p \in Orders(ingest_records) :
              /\ ConfirmedOf(p) = Range(confirmed_duplicates)
              /\ UnconfirmedOf(p) = Range(unconfirmed_duplicates)

\* C20: after the classification every source file of src_id_map has a
\* job with a file record for it that is not in confirmed_duplicates; this
\* is asked of the runs in which no job has two file records for one
\* source file.
C20_OneJobKept ==
    pc = "check" /\ OncePerSource =>
        \A k \in DOMAIN src_id_map :
            \E i \in 1..Len(src_id_map[k]) :
                src_id_map[k][i][1] \notin Range(confirmed_duplicates)

====
